---- MODULE Spec2Model ----
(***************************************************************************)
(* GladosService (response orchestrator): model fallback across the text   *)
(* models, retry with backoff around speech synthesis, and the streaming   *)
(* variant with its fallback to the single-shot path.                      *)
(*                                                                         *)
(* App (the component of App.tsx): the boot-time audio, handleSubmit, the  *)
(* mute toggle and playAudio with its playback sources and PCM decoder.    *)
(*                                                                         *)
(* Strings are sequences of fragments; the empty string is << >>.          *)
(* Candidate indices are 0-based as in the source.                         *)
(***************************************************************************)
EXTENDS Integers, Sequences, FiniteSets, TLC

\* The service: its two fields, the clock, and the calls in flight.
VARIABLES currentTextModelIndex, lastModelCheck, now, ticks, calls, call, lastQuotaFail

\* The App component: its React state (isBooting .. initialAudio), its refs
\* (audioContext is the state of audioContextRef.current, "null" before
\* the first playback), the playback sources it created with the queue of
\* their "ended" events, the invocations of playAudio, the pending boot
\* timer, and the isMuted captured by the handleSubmit that is awaiting
\* its reply.  decoder is the PCM decoder of playAudio taken on its own.
VARIABLES mounted, isBooting, initialAudio, isLoading, isMuted, status,
          audioContext, sourceNodeRef, sources, ended, plays, bootTimer,
          submitClosure, decoder

serviceVars == <<currentTextModelIndex, lastModelCheck, now, ticks, calls, call, lastQuotaFail>>

appVars == <<mounted, isBooting, initialAudio, isLoading, isMuted, status,
             audioContext, sourceNodeRef, sources, ended, plays, bootTimer,
             submitClosure, decoder>>

vars == <<serviceVars, appVars>>

----------------------------------------------------------------------------
(* Bounds of the model *)

\* One task issuing calls one after the other (Spec, SpecRetry).
MaxCalls == 2
MaxTicks == 2
MaxChunks == 2
MaxBudget == 2
\* Two tasks whose calls overlap at the await points (SpecConc).
ConcCalls == 2
ConcTicks == 1
ConcChunks == 1

\* The App: the calls of its handlers, and the clock.
AppCalls == 3
AppTicks == 1
\* The PCM decoder: the longest byte sequence decoded.
MaxBytes == 5

Procs == {"t1", "t2"}
\* history: whether the calls' histories (attempts made, chunks received,
\* events emitted, ...) are recorded; they never influence a step.
Bounds == [calls |-> MaxCalls, ticks |-> MaxTicks, chunks |-> MaxChunks, history |-> TRUE]
ConcBounds == [calls |-> ConcCalls, ticks |-> ConcTicks, chunks |-> ConcChunks, history |-> FALSE]
AppBounds == [calls |-> AppCalls, ticks |-> AppTicks, chunks |-> 0, history |-> FALSE]

----------------------------------------------------------------------------
(* Program constants *)

textModels == <<"gemini-3-flash-preview", "gemini-2.5-flash">>
N == Len(textModels)
CHECK_INTERVAL == 60000
DefaultRetries == 1
DefaultDelay == 500

RefusalText == <<"I'm afraid I can't do that. Mostly because I don't want to.">>
GenericErrorText == <<"An error occurred in my central processing unit. I'd say I'm sorry, but we both know that would be a lie. A very big, fat, orphan-sized lie.">>
QuotaErrorText == <<"Facility-wide resource allocation has been prioritized for more important matters than your incessant chatter. All available processing units are currently occupied.">>

NoAudio == "undefined"

----------------------------------------------------------------------------
(* Behaviours of the external services *)

\* Errors an external call can raise: status, code and an optional message
\* (a sequence of words).
Errors ==
  { [status |-> "RESOURCE_EXHAUSTED", code |-> 8, hasMessage |-> FALSE, message |-> << >>],
    [status |-> "NONE", code |-> 429, hasMessage |-> TRUE, message |-> <<"too", "many", "requests">>],
    [status |-> "NONE", code |-> 500, hasMessage |-> TRUE, message |-> <<"exceeded", "quota", "today">>],
    [status |-> "UNAVAILABLE", code |-> 503, hasMessage |-> TRUE, message |-> <<"overloaded">>] }

NoError == [status |-> "NONE", code |-> 0, hasMessage |-> FALSE, message |-> << >>]

\* response.text of generateContent: undefined, blank, or text with
\* surrounding whitespace.
Responses ==
  { [hasText |-> FALSE, text |-> << >>],
    [hasText |-> TRUE, text |-> <<" ">>],
    [hasText |-> TRUE, text |-> <<"Hi">>],
    [hasText |-> TRUE, text |-> <<" ", "Hi", " ">>] }

\* chunk.text of a streamed chunk: empty/undefined or a piece of text.
Chunks == { << >>, <<"Hello">>, <<", ">> }

\* inlineData of the speech response: a payload, or no inline part at all.
AudioData == {"UklGRg==", NoAudio}

----------------------------------------------------------------------------
(* Pure helpers *)

Includes(msg, w) == \E k \in 1..Len(msg) : msg[k] = w

isQuotaError_NoMessage(e) ==
  \/ e.status = "RESOURCE_EXHAUSTED"
  \/ e.code = 429

isQuotaError(e) ==
  \/ e.status = "RESOURCE_EXHAUSTED"
  \/ e.code = 429
  \/ (e.hasMessage /\ Includes(e.message, "quota"))

IsSpace(ch) == ch = " "

RECURSIVE TrimLeft(_)
TrimLeft(s) ==
  IF s = << >> THEN << >>
  ELSE IF IsSpace(Head(s)) THEN TrimLeft(Tail(s)) ELSE s

RECURSIVE TrimRight(_)
TrimRight(s) ==
  IF s = << >> THEN << >>
  ELSE IF IsSpace(s[Len(s)]) THEN TrimRight(SubSeq(s, 1, Len(s) - 1)) ELSE s

Trim(s) == TrimRight(TrimLeft(s))

\* response.text?.trim(): undefined stays undefined (falsy, here << >>).
ResponseText(r) == IF r.hasText THEN Trim(r.text) ELSE << >>

----------------------------------------------------------------------------
(* Results and per-call records *)

NoResult == [text |-> << >>, audioBase64 |-> NoAudio, thrown |-> FALSE]

NoFail == [idx |-> -1, time |-> 0]

Hist(B, old, new) == IF B.history THEN new ELSE old

\* One logical task (a caller of a public operation).  probe, prevFail,
\* attempts, answer (the raw text of the candidate that answered), caught
\* (the error chat's catch block received), chunks, events, budget, base,
\* ttsAttempts and ttsFails are history of the call; the other fields are
\* the locals of the running operation.
IdleCall ==
  [ op |-> "none", pc |-> "idle", viaFallback |-> FALSE,
    i |-> 0, probe |-> FALSE, prevFail |-> -1, attempts |-> << >>,
    answer |-> << >>, caught |-> NoError,
    text |-> << >>, received |-> 0, chunks |-> << >>, events |-> << >>,
    retries |-> 0, delay |-> 0, wakeAt |-> 0,
    budget |-> 0, base |-> 0, ttsAttempts |-> 0, ttsFails |-> << >>,
    result |-> NoResult ]

(* The operation of call c has handed res to its caller: its locals are
   gone, the history of the call stays. *)
Returned(c, res, B) ==
  [IdleCall EXCEPT !.op = c.op, !.pc = "done", !.result = res,
                   !.viaFallback = Hist(B, @, c.viaFallback),
                   !.probe = c.probe, !.prevFail = c.prevFail,
                   !.attempts = c.attempts,
                   !.answer = c.answer, !.caught = c.caught,
                   !.chunks = c.chunks, !.events = c.events,
                   !.budget = c.budget, !.base = c.base,
                   !.ttsAttempts = c.ttsAttempts, !.ttsFails = c.ttsFails]

----------------------------------------------------------------------------
(* chat: top-level catch, lines 228-241 *)

ChatCatch_Generic(e) ==
  [ text |-> GenericErrorText, audioBase64 |-> NoAudio, thrown |-> FALSE ]

ChatCatch(e) ==
  [ text |-> IF isQuotaError(e) THEN QuotaErrorText ELSE GenericErrorText,
    audioBase64 |-> NoAudio,
    thrown |-> FALSE ]

(* generateAudio: catch, lines 259-262.  The value is what generateAudio
   hands to its caller: the audio, or a raised error. *)
GenerateAudioCatch_Rethrow(e) == [audio |-> NoAudio, thrown |-> TRUE]

GenerateAudioCatch(e) == [audio |-> NoAudio, thrown |-> FALSE]

(* try { audioBase64 = await this.generateAudio(..) } catch {..} of chat and
   chatStream: audioBase64 stays undefined when generateAudio raises. *)
TryAudio(r) == IF r.thrown THEN NoAudio ELSE r.audio

ChatReturns_NoYield(c, res, B) == Returned(c, res, B)

(* chat hands res to its caller; for chatStream's fallback the caller is the
   catch block of chatStream, which emits { ...result, done: true }. *)
ChatReturns(c, res, B) ==
  IF c.op = "chatStream" /\ ~res.thrown
  THEN [Returned(c, res, B) EXCEPT
          !.events = Hist(B, @, Append(@, [text |-> res.text,
                                           audioBase64 |-> res.audioBase64,
                                           done |-> TRUE]))]
  ELSE Returned(c, res, B)

(* The streaming path's terminal event, line 205. *)
StreamReturns(c, audio, B) ==
  [Returned(c, [text |-> c.text, audioBase64 |-> audio, thrown |-> FALSE], B) EXCEPT
     !.events = Hist(B, @, Append(@, [text |-> c.text, audioBase64 |-> audio,
                                      done |-> TRUE]))]

(* generateAudio has completed with r = [audio, thrown] inside call c. *)
AudioReturns(c, r, B) ==
  CASE c.op = "generateAudio" ->
         Returned(c, [text |-> << >>, audioBase64 |-> r.audio,
                      thrown |-> r.thrown], B)
    [] c.op = "chat" \/ (c.op = "chatStream" /\ c.viaFallback) ->
         ChatReturns(c, [text |-> c.text, audioBase64 |-> TryAudio(r),
                         thrown |-> FALSE], B)
    [] OTHER -> StreamReturns(c, TryAudio(r), B)

----------------------------------------------------------------------------
(* withRetry *)

(* withRetry(fn, retries, delay): the first attempt of fn starts at once,
   lines 115-117. *)
StartRetry(c, retries, delay, B) ==
  [c EXCEPT !.pc = "tts", !.retries = retries, !.delay = delay,
            !.i = 0, !.received = 0,
            !.budget = Hist(B, @, retries), !.base = Hist(B, @, delay),
            !.ttsAttempts = Hist(B, @, 1)]

ShouldRetry_AnyError(retries, e) == retries > 0

(* Line 120: whether a failed attempt is retried. *)
ShouldRetry(retries, e) == retries > 0 /\ isQuotaError(e)

NextDelay_Same(delay) == delay

(* Line 123: the delay handed to the next level of withRetry. *)
NextDelay(delay) == delay * 2

(* generateAudio calls withRetry(fn) with the default arguments, line 246. *)
StartAudio(c, B) == StartRetry(c, DefaultRetries, DefaultDelay, B)

----------------------------------------------------------------------------
(* generateTextWithFallback *)

(* Line 131: the condition of the periodic switch back to the best model. *)
CooldownElapsed == now - lastModelCheck > CHECK_INTERVAL

PromotedIndex_NoReset == currentTextModelIndex

PromotedIndex_IgnoreCooldown ==
  IF currentTextModelIndex > 0 THEN 0 ELSE currentTextModelIndex

(* Lines 131-133: the index after the periodic switch back. *)
PromotedIndex ==
  IF currentTextModelIndex > 0 /\ CooldownElapsed
  THEN 0
  ELSE currentTextModelIndex

(* Entry of generateTextWithFallback up to the first await (line 139). *)
\* probe: the call began with currentTextModelIndex > 0 and more than
\* CHECK_INTERVAL after lastModelCheck.  prevFail: the index whose quota
\* failure in the previous chat call lies at most CHECK_INTERVAL back, or -1.
EnterGenerate(c, B) ==
  [c EXCEPT !.pc = "gen", !.i = PromotedIndex,
            !.probe = Hist(B, @, currentTextModelIndex > 0
                                  /\ now > lastModelCheck + CHECK_INTERVAL),
            !.prevFail = Hist(B, @, IF lastQuotaFail.idx >= 0
                                       /\ now - lastQuotaFail.time <= CHECK_INTERVAL
                                    THEN lastQuotaFail.idx ELSE -1)]

CanAdvance_OffByOne(e, i) ==
  \/ isQuotaError(e) /\ i < N
  \/ i < N

(* Lines 158-166: whether the loop goes on to candidate i + 1 after
   candidate i raised e; otherwise the error is thrown (line 167). *)
CanAdvance(e, i) ==
  \/ isQuotaError(e) /\ i < N - 1
  \/ i < N - 1

Continue_SameModel(c, next, B) == c

Continue_NoRefusal(c, next, B) ==
  IF next < N
  THEN [c EXCEPT !.i = next]
  ELSE StartAudio(c, B)

(* Lines 135 and 170: the loop goes on with candidate next, or ends and the
   built-in refusal string is returned to chat. *)
Continue(c, next, B) ==
  IF next < N
  THEN [c EXCEPT !.i = next]
  ELSE StartAudio([c EXCEPT !.text = RefusalText], B)

\* outcome: "ok", "empty" (no text after trimming), "quota" or "error".
Attempt(idx, outcome) == [idx |-> idx, outcome |-> outcome]

----------------------------------------------------------------------------
(* Actions *)

\* Date.now() at construction is far more than CHECK_INTERVAL ms.
StartTime == CHECK_INTERVAL + 1

(* The service after construction, lines 102-105. *)
ServiceInit ==
  /\ currentTextModelIndex = 0
  /\ lastModelCheck = 0
  /\ now = StartTime
  /\ ticks = 0
  /\ calls = 0
  /\ call = [p \in Procs |-> IdleCall]
  /\ lastQuotaFail = NoFail

NoTimer == [armed |-> FALSE, wakeAt |-> 0, isMuted |-> FALSE]

NoClosure == [isMuted |-> FALSE]

(* The App before its first render: the initial values of useState and
   useRef. *)
AppInit ==
  /\ mounted = FALSE
  /\ isBooting = TRUE
  /\ initialAudio = NoAudio
  /\ isLoading = FALSE
  /\ isMuted = FALSE
  /\ status = "IDLE"
  /\ audioContext = "null"
  /\ sourceNodeRef = 0
  /\ sources = << >>
  /\ ended = {}
  /\ plays = << >>
  /\ bootTimer = NoTimer
  /\ submitClosure = NoClosure

IdleDecoder == [pc |-> "idle", bytes |-> << >>, samples |-> << >>]

Init == ServiceInit /\ AppInit /\ decoder = IdleDecoder

TickSteps == {DefaultDelay, CHECK_INTERVAL}

(* Time passes (Date.now() and the timers' clock). *)
Tick(B) ==
  /\ ticks < B.ticks
  /\ \E d \in TickSteps : now' = now + d
  /\ ticks' = ticks + 1
  /\ UNCHANGED <<currentTextModelIndex, lastModelCheck, calls, call, lastQuotaFail>>
  /\ UNCHANGED appVars

(* chat(message), lines 214-217, up to the first await: what it does to
   the service. *)
ChatCall(p, B) ==
  /\ call[p].pc = "idle"
  /\ calls < B.calls
  /\ calls' = calls + 1
  /\ currentTextModelIndex' = PromotedIndex
  /\ call' = [call EXCEPT ![p] = EnterGenerate([IdleCall EXCEPT !.op = "chat"], B)]
  /\ lastQuotaFail' = NoFail
  /\ UNCHANGED <<lastModelCheck, now, ticks>>

(* chat(message) called by a caller other than the App. *)
chat(p, B) == ChatCall(p, B) /\ UNCHANGED appVars

(* generateContent for candidate i answers, lines 150-155. *)
GenerateContentAnswers(p, B) ==
  /\ call[p].pc = "gen"
  /\ \E r \in Responses :
       LET c == call[p]
           text == ResponseText(r)
           logged == [c EXCEPT
                        !.attempts = Hist(B, @, Append(@,
                           Attempt(c.i, IF text # << >> THEN "ok" ELSE "empty"))),
                        !.answer = Hist(B, @, IF text # << >> THEN r.text ELSE @)]
       IN IF text # << >>
          THEN /\ currentTextModelIndex' = c.i
               /\ lastModelCheck' = now
               /\ call' = [call EXCEPT ![p] = StartAudio([logged EXCEPT !.text = text], B)]
          ELSE /\ UNCHANGED <<currentTextModelIndex, lastModelCheck>>
               /\ call' = [call EXCEPT ![p] = Continue(logged, c.i + 1, B)]
  /\ UNCHANGED <<now, ticks, calls, lastQuotaFail>>
  /\ UNCHANGED appVars

(* generateContent for candidate i raises, lines 156-168. *)
GenerateContentFails(p, B) ==
  /\ call[p].pc = "gen"
  /\ \E e \in Errors :
       LET c == call[p]
           logged == [c EXCEPT
                        !.attempts = Hist(B, @, Append(@,
                           Attempt(c.i, IF isQuotaError(e) THEN "quota" ELSE "error"))),
                        !.caught = Hist(B, @, IF CanAdvance(e, c.i) THEN @ ELSE e)]
       IN /\ IF CanAdvance(e, c.i)
             THEN /\ currentTextModelIndex' = c.i + 1
                  /\ call' = [call EXCEPT ![p] = Continue(logged, c.i + 1, B)]
             ELSE /\ UNCHANGED currentTextModelIndex
                  /\ call' = [call EXCEPT ![p] = ChatReturns(logged, ChatCatch(e), B)]
          /\ lastQuotaFail' = IF isQuotaError(e) /\ c.i < N - 1
                              THEN Hist(B, lastQuotaFail, [idx |-> c.i, time |-> now])
                              ELSE lastQuotaFail
  /\ UNCHANGED <<lastModelCheck, now, ticks, calls>>
  /\ UNCHANGED appVars

(* generateAudio(text) called directly, lines 244-246: what it does to the
   service. *)
AudioCall(p, B) ==
  /\ call[p].pc = "idle"
  /\ calls < B.calls
  /\ calls' = calls + 1
  /\ call' = [call EXCEPT ![p] = StartAudio([IdleCall EXCEPT !.op = "generateAudio"], B)]
  /\ UNCHANGED <<currentTextModelIndex, lastModelCheck, now, ticks, lastQuotaFail>>

(* generateAudio(text) called by a caller other than the App. *)
generateAudio(p, B) == AudioCall(p, B) /\ UNCHANGED appVars

(* withRetry(fn, retries, delay) on its own, lines 115-127. *)
withRetry(p, B) ==
  /\ call[p].pc = "idle"
  /\ calls < B.calls
  /\ calls' = calls + 1
  /\ \E retries \in 0..MaxBudget :
       call' = [call EXCEPT ![p] =
         StartRetry([IdleCall EXCEPT !.op = "withRetry"], retries, DefaultDelay, B)]
  /\ UNCHANGED <<currentTextModelIndex, lastModelCheck, now, ticks, lastQuotaFail>>
  /\ UNCHANGED appVars

(* The speech-synthesis call answers, lines 117 and 258. *)
SpeechAnswers(p, B) ==
  /\ call[p].pc = "tts"
  /\ \E data \in AudioData :
       call' = [call EXCEPT ![p] =
         IF call[p].op = "withRetry"
         THEN Returned(call[p], [NoResult EXCEPT !.audioBase64 = data], B)
         ELSE AudioReturns(call[p], [audio |-> data, thrown |-> FALSE], B)]
  /\ UNCHANGED <<currentTextModelIndex, lastModelCheck, now, ticks, calls, lastQuotaFail>>
  /\ UNCHANGED appVars

(* The speech-synthesis call raises, lines 118-126. *)
SpeechFails(p, B) ==
  /\ call[p].pc = "tts"
  /\ \E e \in Errors :
       LET c == [call[p] EXCEPT !.ttsFails = Hist(B, @,
                   Append(@, IF isQuotaError(e) THEN "quota" ELSE "error"))]
       IN call' = [call EXCEPT ![p] =
            IF ShouldRetry(c.retries, e)
            THEN [c EXCEPT !.pc = "backoff", !.wakeAt = now + c.delay]
            ELSE IF c.op = "withRetry"
                 THEN Returned(c, [NoResult EXCEPT !.thrown = TRUE], B)
                 ELSE AudioReturns(c, GenerateAudioCatch(e), B)]
  /\ UNCHANGED <<currentTextModelIndex, lastModelCheck, now, ticks, calls, lastQuotaFail>>
  /\ UNCHANGED appVars

(* setTimeout(resolve, delay) fires and withRetry(fn, retries - 1, delay * 2)
   starts the next attempt, lines 122-123. *)
RetryTimerFires(p, B) ==
  /\ call[p].pc = "backoff"
  /\ now >= call[p].wakeAt
  /\ call' = [call EXCEPT ![p] =
       [@ EXCEPT !.pc = "tts", !.retries = @ - 1, !.delay = NextDelay(@),
                 !.wakeAt = 0,
                 !.ttsAttempts = Hist(B, @, @ + 1)]]
  /\ UNCHANGED <<currentTextModelIndex, lastModelCheck, now, ticks, calls, lastQuotaFail>>
  /\ UNCHANGED appVars

(* chatStream(message), lines 173-178, up to the first await. *)
chatStream(p, B) ==
  /\ call[p].pc = "idle"
  /\ calls < B.calls
  /\ calls' = calls + 1
  /\ call' = [call EXCEPT ![p] =
       [IdleCall EXCEPT !.op = "chatStream", !.pc = "open",
                        !.i = currentTextModelIndex]]
  /\ UNCHANGED <<currentTextModelIndex, lastModelCheck, now, ticks, lastQuotaFail>>
  /\ UNCHANGED appVars

(* generateContentStream hands back the stream, line 178. *)
StreamOpens(p) ==
  /\ call[p].pc = "open"
  /\ call' = [call EXCEPT ![p] = [@ EXCEPT !.pc = "stream"]]
  /\ UNCHANGED <<currentTextModelIndex, lastModelCheck, now, ticks, calls, lastQuotaFail>>
  /\ UNCHANGED appVars

Accumulate_Overwrite(fullText, textChunk) == textChunk

(* Line 192: fullText += textChunk. *)
Accumulate(fullText, textChunk) == fullText \o textChunk

(* A chunk arrives, lines 189-195. *)
StreamChunk(p, B) ==
  /\ call[p].pc = "stream"
  /\ call[p].received < B.chunks
  /\ \E textChunk \in Chunks :
       LET c == [call[p] EXCEPT !.chunks = Hist(B, @, Append(@, textChunk)),
                                !.received = @ + 1]
       IN call' = [call EXCEPT ![p] =
            IF textChunk # << >>
            THEN [c EXCEPT !.text = Accumulate(@, textChunk),
                           !.events = Hist(B, @, Append(@, [text |-> Accumulate(c.text, textChunk),
                                                            audioBase64 |-> NoAudio,
                                                            done |-> FALSE]))]
            ELSE c]
  /\ UNCHANGED <<currentTextModelIndex, lastModelCheck, now, ticks, calls, lastQuotaFail>>
  /\ UNCHANGED appVars

(* The stream completes; speech is synthesized for fullText, lines 197-200. *)
StreamCompletes(p, B) ==
  /\ call[p].pc = "stream"
  /\ call' = [call EXCEPT ![p] = StartAudio(call[p], B)]
  /\ UNCHANGED <<currentTextModelIndex, lastModelCheck, now, ticks, calls, lastQuotaFail>>
  /\ UNCHANGED appVars

(* The streaming request raises, before any chunk or mid-stream; the catch of
   lines 206-210 runs chat(message) up to its first await. *)
StreamFails(p, B) ==
  /\ call[p].pc \in {"open", "stream"}
  /\ currentTextModelIndex' = PromotedIndex
  /\ call' = [call EXCEPT ![p] =
       EnterGenerate([@ EXCEPT !.viaFallback = TRUE, !.text = << >>, !.received = 0], B)]
  /\ lastQuotaFail' = NoFail
  /\ UNCHANGED <<lastModelCheck, now, ticks, calls>>
  /\ UNCHANGED appVars

(* The caller has taken the result; the task can issue its next call. *)
Return(p) ==
  /\ call[p].pc = "done"
  /\ call' = [call EXCEPT ![p] = IdleCall]
  /\ UNCHANGED <<currentTextModelIndex, lastModelCheck, now, ticks, calls, lastQuotaFail>>
  /\ UNCHANGED appVars

Step(p, B) ==
  \/ chat(p, B)
  \/ GenerateContentAnswers(p, B)
  \/ GenerateContentFails(p, B)
  \/ generateAudio(p, B)
  \/ SpeechAnswers(p, B)
  \/ SpeechFails(p, B)
  \/ RetryTimerFires(p, B)
  \/ chatStream(p, B)
  \/ StreamOpens(p)
  \/ StreamChunk(p, B)
  \/ StreamCompletes(p, B)
  \/ StreamFails(p, B)
  \/ Return(p)

(* One task, its calls one after the other. *)
Next == Tick(Bounds) \/ Step("t1", Bounds)

Spec == Init /\ [][Next]_vars

(* Two tasks, their calls overlapping at the await points. *)
NextConc == Tick(ConcBounds) \/ \E p \in Procs : Step(p, ConcBounds)

SpecConc == Init /\ [][NextConc]_vars

(* withRetry with any retry budget, next to generateAudio's use of it. *)
NextRetry ==
  \/ Tick(Bounds)
  \/ withRetry("t1", Bounds)
  \/ generateAudio("t1", Bounds)
  \/ SpeechAnswers("t1", Bounds)
  \/ SpeechFails("t1", Bounds)
  \/ RetryTimerFires("t1", Bounds)
  \/ Return("t1")

SpecRetry == Init /\ [][NextRetry]_vars

----------------------------------------------------------------------------
(* App: playAudio, App.tsx lines 79-173 *)

\* A playback source: "created", "playing" (started), "stopped" (stop()
\* was called while it played) or "ended" (it played to its end).  over:
\* the source was started while its predecessor was playing.
Source(state, over) == [state |-> state, over |-> over]

\* An invocation of playAudio: "skipped" (muted), "resuming" (awaiting
\* context.resume()), "started" or "failed".  isMuted is the isMuted the
\* invoked function closed over, appMuted the App's isMuted at the time of
\* the invocation, src the source the invocation created.
Play(pc, closed, appMuted, src) ==
  [pc |-> pc, isMuted |-> closed, appMuted |-> appMuted, src |-> src]

IsPlaying(srcs, s) == s # 0 /\ srcs[s].state = "playing"

MuteGuard_Off(muted) == FALSE

(* Line 80: if (isMuted) return, with the isMuted the function closed over. *)
MuteGuard(muted) == muted

Stopped_Never(srcs, ref) == srcs

(* Lines 93-96: the sources after sourceNodeRef.current.stop(). *)
Stopped(srcs, ref) ==
  IF IsPlaying(srcs, ref) THEN [srcs EXCEPT ![ref].state = "stopped"] ELSE srcs

\* stop() raises InvalidStateError on a source that was never started.
StopThrows(srcs, ref) == ref # 0 /\ srcs[ref].state = "created"

\* Where the rest of playAudio can raise: atob (line 99), createBuffer
\* (line 115), source.start() (line 168).
PlayFailures == {"none", "decode", "buffer", "start"}

PlayAudioCatch_Keep(st) == [status |-> st, pc |-> "failed"]

(* Lines 169-172: the catch block, entered with status st pending. *)
PlayAudioCatch(st) == [status |-> "IDLE", pc |-> "failed"]

(* Invocation k of ps ends in the catch block. *)
PlayFailed(ps, k, st) ==
  /\ status' = PlayAudioCatch(st).status
  /\ plays' = [ps EXCEPT ![k].pc = PlayAudioCatch(st).pc]

(* Lines 93-168, which run without an await: stop the previous source,
   decode, build the buffer and the source, make it current, signal
   SPEAKING, start it. *)
PlayBody(ps, k) ==
  LET stopped == Stopped(sources, sourceNodeRef)
      queued == ended \cup {x \in DOMAIN sources : stopped[x].state # sources[x].state}
      over == IsPlaying(sources, sourceNodeRef)
      s == Len(sources) + 1
  IN IF StopThrows(sources, sourceNodeRef)
     THEN /\ PlayFailed(ps, k, status)
          /\ UNCHANGED <<sourceNodeRef, sources, ended>>
     ELSE \E failAt \in PlayFailures :
            /\ ended' = queued
            /\ CASE failAt \in {"decode", "buffer"} ->
                      /\ sources' = stopped
                      /\ UNCHANGED sourceNodeRef
                      /\ PlayFailed(ps, k, status)
                 [] failAt = "start" ->
                      /\ sources' = Append(stopped, Source("created", over))
                      /\ sourceNodeRef' = s
                      /\ PlayFailed([ps EXCEPT ![k].src = s], k, "SPEAKING")
                 [] OTHER ->
                      /\ sources' = Append(stopped, Source("playing", over))
                      /\ sourceNodeRef' = s
                      /\ status' = "SPEAKING"
                      /\ plays' = [ps EXCEPT ![k].pc = "started", ![k].src = s]

\* new AudioContext() raises, or hands back a context that is suspended
\* (autoplay policy) or running.
NewContexts == {"throws", "suspended", "running"}

(* playAudio(base64) up to its first await or its end, lines 79-173.  muted
   is the isMuted the invoked function closed over. *)
PlayAudio(muted) ==
  LET k == Len(plays) + 1
      ps == Append(plays, Play("resuming", muted, isMuted, 0))
  IN IF MuteGuard(muted)
     THEN /\ plays' = Append(plays, Play("skipped", muted, isMuted, 0))
          /\ UNCHANGED <<status, audioContext, sourceNodeRef, sources, ended>>
     ELSE \E ctx \in IF audioContext = "null" THEN NewContexts ELSE {audioContext} :
            CASE ctx = "throws" ->
                   /\ PlayFailed(ps, k, status)
                   /\ UNCHANGED <<audioContext, sourceNodeRef, sources, ended>>
              [] ctx = "suspended" ->
                   /\ audioContext' = ctx
                   /\ plays' = ps
                   /\ UNCHANGED <<status, sourceNodeRef, sources, ended>>
              [] OTHER ->
                   /\ audioContext' = ctx
                   /\ PlayBody(ps, k)

(* await context.resume() resolves (line 90) and playAudio goes on. *)
ResumeResolves ==
  /\ \E k \in DOMAIN plays :
       /\ plays[k].pc = "resuming"
       /\ audioContext' = "running"
       /\ PlayBody(plays, k)
  /\ UNCHANGED <<mounted, isBooting, initialAudio, isLoading, isMuted,
                 bootTimer, submitClosure, decoder>>
  /\ UNCHANGED serviceVars

(* await context.resume() rejects; the catch block runs. *)
ResumeRejects ==
  /\ \E k \in DOMAIN plays :
       /\ plays[k].pc = "resuming"
       /\ PlayFailed(plays, k, status)
  /\ UNCHANGED <<mounted, isBooting, initialAudio, isLoading, isMuted,
                 audioContext, sourceNodeRef, sources, ended,
                 bootTimer, submitClosure, decoder>>
  /\ UNCHANGED serviceVars

(* A source plays to its end; its "ended" event is queued. *)
SourceEnds ==
  /\ \E s \in DOMAIN sources :
       /\ sources[s].state = "playing"
       /\ sources' = [sources EXCEPT ![s].state = "ended"]
       /\ ended' = ended \cup {s}
  /\ UNCHANGED <<mounted, isBooting, initialAudio, isLoading, isMuted, status,
                 audioContext, sourceNodeRef, plays, bootTimer, submitClosure,
                 decoder>>
  /\ UNCHANGED serviceVars

IsCurrent_Always(ref, s) == TRUE

(* Line 163: sourceNodeRef.current === source. *)
IsCurrent(ref, s) == ref = s

(* source.onended runs for a source that ended or was stopped, lines 162-166. *)
OnEnded ==
  /\ \E s \in ended :
       /\ ended' = ended \ {s}
       /\ status' = IF IsCurrent(sourceNodeRef, s) THEN "IDLE" ELSE status
  /\ UNCHANGED <<mounted, isBooting, initialAudio, isLoading, isMuted,
                 audioContext, sourceNodeRef, sources, plays, bootTimer,
                 submitClosure, decoder>>
  /\ UNCHANGED serviceVars

----------------------------------------------------------------------------
(* App: effects and handlers *)

BootAudioDelay == 500

(* Lines 176-183: the effect arms the timer; its callback calls the
   playAudio of the render that ran the effect. *)
ArmedTimer == [armed |-> TRUE, wakeAt |-> now + BootAudioDelay, isMuted |-> isMuted]

(* First render: the effect of lines 36-42 calls glados.generateAudio. *)
Mount(B) ==
  /\ ~mounted
  /\ mounted' = TRUE
  /\ AudioCall("t2", B)
  /\ UNCHANGED <<isBooting, initialAudio, isLoading, isMuted, status,
                 audioContext, sourceNodeRef, sources, ended, plays, bootTimer,
                 submitClosure, decoder>>

(* The boot sequence ends: setIsBooting(false), line 67, and the effect of
   lines 176-184 runs for the new isBooting. *)
BootEnds ==
  /\ mounted
  /\ isBooting
  /\ isBooting' = FALSE
  /\ bootTimer' = IF initialAudio # NoAudio THEN ArmedTimer ELSE bootTimer
  /\ UNCHANGED <<mounted, initialAudio, isLoading, isMuted, status,
                 audioContext, sourceNodeRef, sources, ended, plays,
                 submitClosure, decoder>>
  /\ UNCHANGED serviceVars

(* fetchInitial resumes with the audio, lines 38-39, and the effect of
   lines 176-184 runs for the new initialAudio. *)
PrefetchResolves ==
  /\ mounted
  /\ call["t2"].pc = "done"
  /\ LET audio == IF call["t2"].result.thrown THEN NoAudio
                  ELSE call["t2"].result.audioBase64
     IN /\ initialAudio' = IF audio # NoAudio THEN audio ELSE initialAudio
        /\ bootTimer' = IF audio # NoAudio /\ ~isBooting THEN ArmedTimer ELSE bootTimer
  /\ call' = [call EXCEPT !["t2"] = IdleCall]
  /\ UNCHANGED <<currentTextModelIndex, lastModelCheck, now, ticks, calls, lastQuotaFail>>
  /\ UNCHANGED <<mounted, isBooting, isLoading, isMuted, status,
                 audioContext, sourceNodeRef, sources, ended, plays,
                 submitClosure, decoder>>

(* The timer of line 178 fires: playAudio(initialAudio). *)
BootTimerFires ==
  /\ bootTimer.armed
  /\ now >= bootTimer.wakeAt
  /\ bootTimer' = NoTimer
  /\ PlayAudio(bootTimer.isMuted)
  /\ UNCHANGED <<mounted, isBooting, initialAudio, isLoading, isMuted,
                 submitClosure, decoder>>
  /\ UNCHANGED serviceVars

(* The mute button, line 345: setIsMuted(!isMuted). *)
ToggleMute ==
  /\ mounted
  /\ ~isBooting
  /\ isMuted' = ~isMuted
  /\ UNCHANGED <<mounted, isBooting, initialAudio, isLoading, status,
                 audioContext, sourceNodeRef, sources, ended, plays, bootTimer,
                 submitClosure, decoder>>
  /\ UNCHANGED serviceVars

\* What the user can have typed.
Inputs == {<< >>, <<" ">>, <<"hi">>}

(* handleSubmit up to its await, lines 186-201. *)
handleSubmit(B) ==
  /\ mounted
  /\ ~isBooting
  /\ \E input \in Inputs :
       IF Trim(input) = << >> \/ isLoading
       THEN UNCHANGED vars
       ELSE /\ isLoading' = TRUE
            /\ status' = "PROCESSING"
            /\ submitClosure' = [isMuted |-> isMuted]
            /\ ChatCall("t1", B)
            /\ UNCHANGED <<mounted, isBooting, initialAudio, isMuted,
                           audioContext, sourceNodeRef, sources, ended, plays,
                           bootTimer, decoder>>

(* handleSubmit resumes with chat's result, lines 201-218. *)
ChatResolves ==
  /\ mounted
  /\ isLoading
  /\ call["t1"].pc = "done"
  /\ call' = [call EXCEPT !["t1"] = IdleCall]
  /\ UNCHANGED <<currentTextModelIndex, lastModelCheck, now, ticks, calls, lastQuotaFail>>
  /\ IF call["t1"].result.thrown
     THEN UNCHANGED appVars
     ELSE /\ isLoading' = FALSE
          /\ submitClosure' = NoClosure
          /\ IF call["t1"].result.audioBase64 # NoAudio
             THEN PlayAudio(submitClosure.isMuted)
             ELSE /\ status' = "IDLE"
                  /\ UNCHANGED <<audioContext, sourceNodeRef, sources, ended, plays>>
          /\ UNCHANGED <<mounted, isBooting, initialAudio, isMuted, bootTimer, decoder>>

(* The App with the service behind it. *)
NextApp ==
  \/ Tick(AppBounds)
  \/ Mount(AppBounds)
  \/ BootEnds
  \/ PrefetchResolves
  \/ BootTimerFires
  \/ ToggleMute
  \/ handleSubmit(AppBounds)
  \/ GenerateContentAnswers("t1", AppBounds)
  \/ GenerateContentFails("t1", AppBounds)
  \/ \E p \in Procs : SpeechAnswers(p, AppBounds)
  \/ \E p \in Procs : SpeechFails(p, AppBounds)
  \/ \E p \in Procs : RetryTimerFires(p, AppBounds)
  \/ ChatResolves
  \/ ResumeResolves
  \/ ResumeRejects
  \/ SourceEnds
  \/ OnEnded

SpecApp == Init /\ [][NextApp]_vars

----------------------------------------------------------------------------
(* App: the PCM decoder of playAudio, App.tsx lines 98-116 *)

\* Byte values the decoder is run on.
SampleBytes == {0, 1, 127, 128, 255}

ByteSeqs == UNION {[1..n -> SampleBytes] : n \in 0..MaxBytes}

(* Line 108: bytes.buffer.slice(0, bytes.length - (bytes.length % 2)). *)
EvenPrefix(bytes) == SubSeq(bytes, 1, Len(bytes) - (Len(bytes) % 2))

Int16At_BigEndian(lo, hi) ==
  LET u == 256 * lo + hi IN IF u >= 32768 THEN u - 65536 ELSE u

(* One element of new Int16Array(buffer), line 109: the two bytes read as a
   two's-complement number, low byte first. *)
Int16At(lo, hi) ==
  LET u == lo + 256 * hi IN IF u >= 32768 THEN u - 65536 ELSE u

(* Line 109: new Int16Array(buffer). *)
PcmData(buffer) ==
  [k \in 1..(Len(buffer) \div 2) |-> Int16At(buffer[2 * k - 1], buffer[2 * k])]

(* Line 112: pcmData[i] / 32768.0, as a fraction. *)
ToFloat(v) == [num |-> v, den |-> 32768]

(* Lines 108-113: the samples decoded from bytes. *)
DecodePcm(bytes) ==
  LET pcmData == PcmData(EvenPrefix(bytes))
  IN [k \in DOMAIN pcmData |-> ToFloat(pcmData[k])]

(* The decoder is handed any byte sequence. *)
InitDecode ==
  /\ ServiceInit
  /\ AppInit
  /\ decoder \in {[pc |-> "input", bytes |-> b, samples |-> << >>] : b \in ByteSeqs}

(* The decoding of lines 108-113 has run. *)
DecodeAudio ==
  /\ decoder.pc = "input"
  /\ decoder' = [decoder EXCEPT !.pc = "decoded", !.samples = DecodePcm(decoder.bytes)]
  /\ UNCHANGED <<mounted, isBooting, initialAudio, isLoading, isMuted, status,
                 audioContext, sourceNodeRef, sources, ended, plays, bootTimer,
                 submitClosure>>
  /\ UNCHANGED serviceVars

NextDecode == DecodeAudio

SpecDecode == InitDecode /\ [][NextDecode]_vars

----------------------------------------------------------------------------
(* Vocabulary of the properties *)

\* Quota-class: status RESOURCE_EXHAUSTED, code 429, or "quota" in the message.
QuotaClass(e) ==
  \/ e.status = "RESOURCE_EXHAUSTED"
  \/ e.code = 429
  \/ (e.hasMessage /\ \E k \in DOMAIN e.message : e.message[k] = "quota")

Finished(c, op) == c.pc = "done" /\ c.op = op

AllAttemptsQuota(c) ==
  /\ c.attempts # << >>
  /\ \A k \in DOMAIN c.attempts : c.attempts[k].outcome = "quota"

LastAttempt(c) == c.attempts[Len(c.attempts)]

Answered(c) == c.attempts # << >> /\ LastAttempt(c).outcome = "ok"

RECURSIVE Concat(_)
Concat(ss) == IF ss = << >> THEN << >> ELSE Head(ss) \o Concat(Tail(ss))

IsNonEmpty(t) == t # << >>

IsPrefix(s, t) == Len(s) <= Len(t) /\ SubSeq(t, 1, Len(s)) = s

RECURSIVE Pow2(_)
Pow2(n) == IF n <= 0 THEN 1 ELSE 2 * Pow2(n - 1)

\* The events a finished streaming call must have emitted for the chunk
\* sequence cs: one running total per chunk, then the terminal event.
EmitsRunningTotals(c, cs) ==
  /\ Len(c.events) = Len(cs) + 1
  /\ \A k \in 1..Len(cs) :
       /\ c.events[k].text = Concat(SubSeq(cs, 1, k))
       /\ ~c.events[k].done
  /\ c.events[Len(cs) + 1].done
  /\ c.events[Len(cs) + 1].text = Concat(cs)

----------------------------------------------------------------------------
(* C1: when every generation attempt of a chat call fails with a quota-class
   error, chat returns the built-in refusal string and does not throw. *)
C1_RefusalAfterAllQuota ==
  \A p \in Procs :
    Finished(call[p], "chat") /\ AllAttemptsQuota(call[p])
      => /\ call[p].result.text = RefusalText
         /\ ~call[p].result.thrown

(* C1, amended: when every generation attempt of a chat call fails with a
   quota-class error, chat returns the quota-exhaustion message with audio
   absent and does not throw. *)
C1_QuotaMessageAfterAllQuota ==
  \A p \in Procs :
    Finished(call[p], "chat") /\ AllAttemptsQuota(call[p])
      => /\ call[p].result.text = QuotaErrorText
         /\ call[p].result.audioBase64 = NoAudio
         /\ ~call[p].result.thrown

C1_Witness ==
  \E p \in Procs :
    /\ Finished(call[p], "chat")
    /\ AllAttemptsQuota(call[p])
    /\ Len(call[p].attempts) = N

(* C2: chat, chatStream and generateAudio complete with a value and never
   raise an error to their caller, whatever the external calls do. *)
C2_NeverThrows ==
  \A p \in Procs :
    call[p].pc = "done" /\ call[p].op \in {"chat", "chatStream", "generateAudio"}
      => /\ ~call[p].result.thrown
         /\ call[p].op = "chatStream"
              => /\ call[p].events # << >>
                 /\ call[p].events[Len(call[p].events)].done

C2_Witness ==
  \E p \in Procs :
    /\ Finished(call[p], "chatStream")
    /\ call[p].viaFallback
    /\ call[p].caught # NoError
    /\ ~QuotaClass(call[p].caught)

(* C3: when text generation fails for a chat call (the last candidate's error
   propagates), chat returns audio absent and the quota-exhaustion message if
   and only if the error is quota-class, the generic message otherwise; the
   two messages differ. *)
C3_ErrorMessageByClass ==
  /\ QuotaErrorText # GenericErrorText
  /\ \A p \in Procs :
       call[p].pc = "done" /\ call[p].op \in {"chat", "chatStream"}
         => /\ call[p].caught # NoError
                <=> /\ call[p].attempts # << >>
                    /\ LastAttempt(call[p]).outcome \in {"quota", "error"}
            /\ call[p].caught # NoError
                 => /\ LastAttempt(call[p]).idx = N - 1
                    /\ call[p].result.audioBase64 = NoAudio
                    /\ call[p].result.text =
                         IF QuotaClass(call[p].caught) THEN QuotaErrorText
                         ELSE GenericErrorText

C3_Witness ==
  \E p \in Procs :
    /\ Finished(call[p], "chat")
    /\ call[p].caught.status # "RESOURCE_EXHAUSTED"
    /\ call[p].caught.code # 429
    /\ QuotaClass(call[p].caught)

(* C4: the text of every chat result and of every terminal event of
   chatStream is a non-empty string. *)
C4_TextNeverEmpty ==
  \A p \in Procs :
    /\ Finished(call[p], "chat") => call[p].result.text # << >>
    /\ \A k \in DOMAIN call[p].events :
         call[p].events[k].done => call[p].events[k].text # << >>

(* C5: when text generation succeeds in a chat call, a failure of speech
   synthesis (quota-class after the retry budget, or a non-quota error, which
   is not retried) is swallowed: chat returns exactly the generated text with
   audio absent, not the error message and not a thrown error. *)
C5_AudioFailureSwallowed ==
  \A p \in Procs :
    LET c == call[p] IN
    /\ \A k \in DOMAIN c.ttsFails :
         c.op = "chat" /\ c.ttsFails[k] = "error" => k = c.ttsAttempts
    /\ Finished(c, "chat") /\ Answered(c) /\ Len(c.ttsFails) = c.ttsAttempts
         => /\ c.result.text = Trim(c.answer)
            /\ c.result.text \notin {GenericErrorText, QuotaErrorText, << >>}
            /\ c.result.audioBase64 = NoAudio
            /\ ~c.result.thrown

C5_Witness ==
  \E p \in Procs :
    /\ Finished(call[p], "chat")
    /\ Answered(call[p])
    /\ call[p].ttsFails = <<"quota", "error">>

(* Parts of C6: the retry bookkeeping in every state, and the two steps of a
   retry (arming the timer after a failure, the timer firing). *)
C6_RetryState ==
  \A p \in Procs :
    LET c == call[p] IN
    /\ c.ttsAttempts <= c.budget + 1
    /\ c.op = "generateAudio" => c.budget = 1 /\ c.base = 500
    /\ \A k \in DOMAIN c.ttsFails :
         IF c.ttsFails[k] = "quota" /\ k <= c.budget
         THEN \/ c.ttsAttempts >= k + 1
              \/ c.ttsAttempts = k /\ c.pc = "backoff"
         ELSE c.ttsAttempts = k /\ c.pc = "done"
    /\ Finished(c, "generateAudio") /\ Len(c.ttsFails) = 2
         => /\ c.ttsAttempts = 2
            /\ c.result.audioBase64 = NoAudio
            /\ ~c.result.thrown

C6_RetryStep ==
  \A p \in Procs :
    /\ call[p].pc = "tts" /\ call'[p].pc = "backoff"
         => call'[p].wakeAt = now + call[p].base * Pow2(call[p].ttsAttempts - 1)
    /\ call[p].pc = "backoff" /\ call'[p].pc = "tts"
         => /\ now >= call[p].wakeAt
            /\ call'[p].ttsAttempts = call[p].ttsAttempts + 1

(* C6: generateAudio (budget 1, base 500 ms) makes exactly one retry after one
   quota-class failure, not before 500 ms after it, makes no third attempt
   and returns absent when the retry fails too; in general the k-th retry is
   delayed by base * 2^(k-1) and at most budget + 1 attempts are made. *)
C6_RetryWithBackoff == [](C6_RetryState) /\ [][C6_RetryStep]_vars

C6_Witness ==
  \E p \in Procs :
    /\ Finished(call[p], "generateAudio")
    /\ call[p].ttsFails = <<"quota", "quota">>

(* C7: currentTextModelIndex is always a valid index into textModels, for
   every interleaving of chat and chatStream calls at their await points. *)
C7_IndexValid == 0 <= currentTextModelIndex /\ currentTextModelIndex <= N - 1

C7_Witness ==
  /\ currentTextModelIndex = N - 1
  /\ call["t1"].pc = "gen" /\ call["t1"].i = N - 1
  /\ call["t2"].pc = "gen" /\ call["t2"].i = 0

(* C8: a chat call that begins with currentTextModelIndex > 0 and more than
   CHECK_INTERVAL after lastModelCheck resets the index to 0 and first
   attempts the model at index 0; if that attempt fails, the fallback chain
   goes on from index 1. *)
C8_ProbeBestModelFirst ==
  \A p \in Procs :
    LET c == call[p] IN
    c.probe =>
      /\ c.pc = "gen" /\ c.attempts = << >>
           => c.i = 0 /\ currentTextModelIndex = 0
      /\ c.attempts # << >> => c.attempts[1].idx = 0
      /\ Len(c.attempts) = 1 /\ c.attempts[1].outcome \in {"quota", "error"}
           => c.pc = "gen" /\ c.i = 1
      /\ Len(c.attempts) >= 2 => c.attempts[2].idx = 1

C8_Witness ==
  \E p \in Procs :
    /\ call[p].op = "chat"
    /\ call[p].probe
    /\ Len(call[p].attempts) = 2
    /\ call[p].attempts[1].outcome = "quota"
    /\ lastModelCheck > 0

(* C9: after a chat call in which the model at index i < N-1 failed with a
   quota-class error, the next chat call, made within the cool-down window of
   that failure, does not attempt model i first: it starts at the index the
   previous call left, whether or not the previous call succeeded later. *)
C9_NoRedundantRetry ==
  \A p \in Procs :
    LET c == call[p] IN
    c.op = "chat" /\ c.prevFail >= 0 =>
      /\ c.pc = "gen" /\ c.attempts = << >> => c.i # c.prevFail
      /\ c.attempts # << >> => c.attempts[1].idx # c.prevFail

(* C10: for a stream that delivers chunks c1..cn and completes, chatStream
   emits exactly n non-terminal events c1, c1+c2, ..., one per chunk, then
   exactly one terminal event with the full text. *)
C10_EventPerChunk ==
  \A p \in Procs :
    Finished(call[p], "chatStream") /\ ~call[p].viaFallback
      => EmitsRunningTotals(call[p], call[p].chunks)

(* C10, amended: for a stream that delivers chunks c1..cn and completes,
   chatStream emits one non-terminal event per chunk with non-empty text,
   carrying the running total up to that chunk, in order, and then exactly
   one terminal event with the full text c1+...+cn. *)
C10_EventPerNonEmptyChunk ==
  \A p \in Procs :
    Finished(call[p], "chatStream") /\ ~call[p].viaFallback
      => /\ EmitsRunningTotals(call[p], SelectSeq(call[p].chunks, IsNonEmpty))
         /\ call[p].events[Len(call[p].events)].text = Concat(call[p].chunks)

C10_Witness ==
  \E p \in Procs :
    /\ Finished(call[p], "chatStream")
    /\ ~call[p].viaFallback
    /\ call[p].chunks = << <<"Hello">>, <<", ">> >>

(* C11: within one chatStream call the text of every emitted event, the
   terminal one included, has the text of every event emitted before it as a
   prefix, also when the stream fails after partial text was emitted. *)
C11_TextGrowsMonotonically ==
  \A p \in Procs :
    \A j, k \in DOMAIN call[p].events :
      j < k => IsPrefix(call[p].events[j].text, call[p].events[k].text)

(* C12: when the streaming request fails, before any chunk or mid-stream,
   chatStream runs the whole chat path and emits chat's result as its
   terminal event; every chatStream call emits exactly one event with
   done = true, and that event is its last. *)
C12_FallbackEmitsChatResult ==
  \A p \in Procs :
    LET c == call[p]
        last == c.events[Len(c.events)]
    IN c.op = "chatStream" =>
         /\ \A k \in DOMAIN c.events :
              c.events[k].done <=> (k = Len(c.events) /\ c.pc = "done")
         /\ c.pc = "done" => c.events # << >>
         /\ c.pc = "done" /\ c.viaFallback
              => /\ c.attempts # << >>
                 /\ last = [text |-> c.result.text,
                            audioBase64 |-> c.result.audioBase64,
                            done |-> TRUE]
                 /\ c.result.text =
                      IF c.caught # NoError THEN ChatCatch(c.caught).text
                      ELSE IF Answered(c) THEN Trim(c.answer)
                      ELSE RefusalText

C12_Witness ==
  \E p \in Procs :
    /\ Finished(call[p], "chatStream")
    /\ call[p].viaFallback
    /\ call[p].chunks = << <<"Hello">> >>
    /\ Len(call[p].events) = 2
    /\ Answered(call[p])

\* The invocations of playAudio made by the step.
NewPlays == {k \in DOMAIN plays' : k \notin DOMAIN plays}

C13_MutedStep ==
  \A k \in NewPlays :
    plays'[k].isMuted
      => /\ plays'[k].pc = "skipped"
         /\ plays'[k].src = 0
         /\ UNCHANGED <<status, audioContext, sourceNodeRef, sources, ended>>

(* C13: an invocation of playAudio that sees isMuted set does nothing: it
   decodes nothing, does not stop the previous source, creates no source
   and leaves status and the current-source ref as they are. *)
C13_MutedDoesNothing ==
  [](\A k \in DOMAIN plays : plays[k].isMuted <=> plays[k].pc = "skipped")
    /\ [][C13_MutedStep]_vars

C13_Witness ==
  \E j, k \in DOMAIN plays :
    /\ j < k
    /\ plays[j].pc = "started"
    /\ plays[k].pc = "skipped"
    /\ sourceNodeRef = plays[j].src
    /\ IsPlaying(sources, sourceNodeRef)
    /\ status = "SPEAKING"

(* C14: when a playback B is started while a playback A is active, A is
   stopped before B starts, A's completion callback never sets status to
   IDLE once B is the current source, and status stays SPEAKING until B ends
   or is superseded. *)
C14_SpeakingUntilEnd ==
  /\ \A s \in DOMAIN sources :
       sources[s].state = "playing" /\ sources[s].over
         => /\ \A a \in DOMAIN sources : a # s => sources[a].state # "playing"
            /\ sourceNodeRef = s => status = "SPEAKING"

\* The sources started, and the "ended" callbacks run, by the step.
Starts(s) ==
  /\ s \in DOMAIN sources'
  /\ sources'[s].state = "playing"
  /\ s \notin DOMAIN sources

RunsOnEnded(s) == s \in ended /\ s \notin ended'

C14_SupersedeStep ==
  /\ \A b \in DOMAIN sources' :
       Starts(b)
         => /\ sourceNodeRef' = b
            /\ status' = "SPEAKING"
            /\ \A a \in DOMAIN sources :
                 /\ sources'[a].state # "playing"
                 /\ sources[a].state = "playing"
                      => sources'[a].state = "stopped" /\ a \in ended'
  /\ \A a \in DOMAIN sources :
       RunsOnEnded(a) /\ sourceNodeRef # a => status' = status

(* C14, amended: when a playback B is started while a playback A is active,
   A is stopped before B starts and status is SPEAKING when B starts; A's
   completion callback never changes status once B is the current
   source. *)
C14_StaleCallbackIgnored ==
  [](\A s \in DOMAIN sources :
       sources[s].state = "playing"
         => \A a \in DOMAIN sources : a # s => sources[a].state # "playing")
    /\ [][C14_SupersedeStep]_vars

C14_Witness ==
  \E a, b \in DOMAIN sources :
    /\ sources[a].state = "stopped"
    /\ a \notin ended
    /\ sources[b].state = "playing"
    /\ sources[b].over
    /\ sourceNodeRef = b
    /\ status = "SPEAKING"

(* C15: at most one playback source is active at any instant, also when
   invocations of playAudio overlap at await context.resume(). *)
C15_OneActiveSource ==
  Cardinality({s \in DOMAIN sources : sources[s].state = "playing"}) <= 1

C15_Witness ==
  \E j, k \in DOMAIN plays :
    /\ j < k
    /\ plays[j].pc = "resuming"
    /\ plays[k].pc = "started"
    /\ plays[k].src > 1
    /\ IsPlaying(sources, plays[k].src)

C16_FailureStep ==
  \A k \in DOMAIN plays' :
    /\ plays'[k].pc = "failed"
    /\ k \in DOMAIN plays => plays[k].pc # "failed"
    => status' = "IDLE"

(* C16: a failure at any point of an unmuted playAudio call is caught, not
   handed to the caller, and sets status to IDLE. *)
C16_FailureSetsIdle ==
  [](\A k \in DOMAIN plays : plays[k].pc \in {"skipped", "resuming", "started", "failed"})
    /\ [][C16_FailureStep]_vars

C16_Witness ==
  \E k \in DOMAIN plays :
    /\ plays[k].pc = "failed"
    /\ plays[k].src # 0
    /\ sources[plays[k].src].state = "created"
    /\ sources[plays[k].src].over
    /\ status = "IDLE"

\* The signed 16-bit little-endian number of the byte pair (lo, hi).
SignedLE(lo, hi) == IF hi >= 128 THEN lo + 256 * hi - 65536 ELSE lo + 256 * hi

\* The two bytes of the 16-bit number v, low byte first.
BytesLE(v) == LET u == IF v < 0 THEN v + 65536 ELSE v IN <<u % 256, u \div 256>>

RECURSIVE EncodeInt16LE(_)
EncodeInt16LE(vs) ==
  IF vs = << >> THEN << >> ELSE BytesLE(Head(vs)) \o EncodeInt16LE(Tail(vs))

(* C17: for a byte sequence b of length L the decoder yields floor(L/2)
   samples, sample k being the signed 16-bit little-endian number of bytes
   2k and 2k+1 (0-based) divided by 32768; a trailing odd byte is dropped;
   encoding the decoded numbers and decoding again gives the same samples. *)
C17_DecoderContract ==
  decoder.pc = "decoded" =>
    LET b == decoder.bytes
        out == decoder.samples
        L == Len(b)
    IN /\ Len(out) = L \div 2
       /\ \A k \in 0..(Len(out) - 1) :
            /\ out[k + 1].num = SignedLE(b[2 * k + 1], b[2 * k + 2])
            /\ out[k + 1].den = 32768
            /\ out[k + 1].num \in -32768..32767
       /\ DecodePcm(EncodeInt16LE([k \in DOMAIN out |-> out[k].num])) = out
       /\ EncodeInt16LE([k \in DOMAIN out |-> out[k].num]) = SubSeq(b, 1, 2 * (L \div 2))

C17_Witness ==
  /\ decoder.pc = "decoded"
  /\ Len(decoder.bytes) = 5
  /\ Len(decoder.samples) = 2
  /\ decoder.samples[1].num = -32768
  /\ decoder.samples[2].num = 32767

(* C18: once mute is switched on, no invocation of playAudio made while it
   is on starts a playback or signals SPEAKING, whichever handler makes it
   (handleSubmit resuming after its await, or the boot timer). *)
C18_MuteStopsLaterPlayback ==
  \A k \in DOMAIN plays : plays[k].appMuted => plays[k].pc # "started"

(* Parts of C19: the attempt log in every state, and the step that makes an
   attempt. *)
C19_AttemptLog ==
  \A p \in Procs :
    LET c == call[p] IN
    /\ Len(c.attempts) <= N
    /\ \A k \in DOMAIN c.attempts : c.attempts[k].idx \in 0..(N - 1)
    /\ \A j, k \in DOMAIN c.attempts :
         j < k => c.attempts[j].idx < c.attempts[k].idx
    /\ c.pc = "gen"
         => /\ c.i <= N - 1
            /\ IF c.attempts = << >>
               THEN c.i = currentTextModelIndex
               ELSE c.i > LastAttempt(c).idx

C19_AttemptStep ==
  \A p \in Procs :
    call'[p].attempts # call[p].attempts /\ call'[p].attempts # << >>
      => /\ call[p].pc = "gen"
         /\ call'[p].attempts =
              Append(call[p].attempts, Attempt(call[p].i, LastAttempt(call'[p]).outcome))

(* C19: within one chat call the attempts are made one after the other at
   strictly increasing candidate indices, the first one at
   currentTextModelIndex as it is after the cool-down reset; no model is
   attempted twice and at most N attempts are made. *)
C19_AttemptsInOrder == [](C19_AttemptLog) /\ [][C19_AttemptStep]_vars

C19_Witness ==
  \E p \in Procs :
    /\ call[p].op = "chat"
    /\ call[p].probe
    /\ Len(call[p].attempts) = N
    /\ call[p].attempts[1].outcome = "empty"

\* The steps of a call that C20 tells apart.
EntersChat(p) == call[p].pc \in {"idle", "open", "stream"} /\ call'[p].pc = "gen"

Attempts(p) == Len(call'[p].attempts) = Len(call[p].attempts) + 1

C20_IndexStep ==
  /\ \A p \in Procs :
       LET a == LastAttempt(call'[p]) IN
       /\ EntersChat(p)
            => /\ currentTextModelIndex' =
                    IF currentTextModelIndex > 0
                       /\ now - lastModelCheck > CHECK_INTERVAL
                    THEN 0 ELSE currentTextModelIndex
               /\ lastModelCheck' = lastModelCheck
       /\ Attempts(p) /\ a.outcome \in {"quota", "error"}
            => /\ currentTextModelIndex' =
                    IF a.idx < N - 1 THEN currentTextModelIndex + 1
                    ELSE currentTextModelIndex
               /\ lastModelCheck' = lastModelCheck
       /\ Attempts(p) /\ a.outcome = "ok"
            => /\ currentTextModelIndex' = a.idx
               /\ lastModelCheck' = now
       /\ Attempts(p) /\ a.outcome = "empty"
            => UNCHANGED <<currentTextModelIndex, lastModelCheck>>
       /\ call[p].op = "chatStream" /\ ~call'[p].viaFallback
            => UNCHANGED <<currentTextModelIndex, lastModelCheck>>
  /\ (\A p \in Procs : ~EntersChat(p) /\ ~Attempts(p))
       => UNCHANGED <<currentTextModelIndex, lastModelCheck>>
  /\ currentTextModelIndex' < currentTextModelIndex
       => currentTextModelIndex' = 0 /\ \E p \in Procs : EntersChat(p)
  /\ currentTextModelIndex' <= N - 1

(* C20: over any sequence of chat and chatStream calls currentTextModelIndex
   moves forward by exactly one on each failure of a candidate that is not
   the last, is set to the index of the candidate that answers, with
   lastModelCheck set to the time of the answer, decreases only through the
   cool-down reset to 0 at the start of a chat call, and never wraps; a
   chatStream call that does not fall back leaves both fields as they are. *)
C20_IndexMoves == [][C20_IndexStep]_vars

C20_Witness ==
  \E p \in Procs :
    /\ call[p].probe
    /\ Len(call[p].attempts) = N
    /\ call[p].attempts[1].outcome = "error"
    /\ call[p].attempts[N].outcome = "ok"
    /\ currentTextModelIndex = N - 1
    /\ lastModelCheck = now

\* Every attempt of the call so far was answered without text.
AllAttemptsEmpty(c) ==
  /\ c.attempts # << >>
  /\ \A k \in DOMAIN c.attempts : c.attempts[k].outcome = "empty"

C21_AfterEmpty ==
  \A p \in Procs :
    LET c == call[p] IN
    /\ c.attempts # << >> /\ LastAttempt(c).outcome = "empty"
         => /\ c.caught = NoError
            /\ c.answer = << >>
            /\ IF LastAttempt(c).idx < N - 1
               THEN c.pc = "gen" /\ c.i = LastAttempt(c).idx + 1
               ELSE /\ c.pc \in {"tts", "backoff", "done"}
                    /\ c.ttsAttempts >= 1
                    /\ c.pc # "done" => c.text = RefusalText
                    /\ c.pc = "done"
                         => /\ c.result.text = RefusalText
                            /\ ~c.result.thrown
                            /\ Len(c.ttsFails) = c.ttsAttempts
                                 => c.result.audioBase64 = NoAudio

C21_EmptyStep ==
  \A p \in Procs :
    Attempts(p) /\ LastAttempt(call'[p]).outcome = "empty"
      => /\ UNCHANGED <<currentTextModelIndex, lastModelCheck>>
         /\ call'[p].pc = IF call[p].i < N - 1 THEN "gen" ELSE "tts"

(* C21: a candidate that answers with empty or whitespace-only text counts
   neither as success nor as failure: the loop goes on to the next candidate
   and leaves currentTextModelIndex and lastModelCheck as they are; when no
   later candidate answers with text and none raises, the result is the
   built-in refusal string, and speech synthesis is attempted for it. *)
C21_EmptyAnswerSkipped == [](C21_AfterEmpty) /\ [][C21_EmptyStep]_vars

C21_Witness ==
  \E p \in Procs :
    /\ Finished(call[p], "chat")
    /\ AllAttemptsEmpty(call[p])
    /\ Len(call[p].attempts) = N
    /\ call[p].result.text = RefusalText
    /\ call[p].result.audioBase64 # NoAudio

\* A submit was accepted (the first service call is the boot prefetch).
Submitted == calls > 1

\* Nothing is pending: the service calls have returned and were taken, no
\* playback is active or waiting to start, no "ended" event or timer is due.
Quiescent ==
  /\ ~isBooting
  /\ ~isLoading
  /\ \A p \in Procs : call[p].pc = "idle"
  /\ \A s \in DOMAIN sources : sources[s].state # "playing"
  /\ ended = {}
  /\ \A k \in DOMAIN plays : plays[k].pc # "resuming"
  /\ ~bootTimer.armed

(* C22: status never stays stuck: after an accepted submit, once the service
   call has returned and every started playback has ended with its callback
   run, status is IDLE again, for every interleaving of submits, mute
   toggles and playback-end events, a reply with audio arriving while muted
   included. *)
C22_StatusReturnsToIdle == Submitted /\ Quiescent => status = "IDLE"

(* C23: while a chat request is in flight (isLoading) status is PROCESSING:
   no playback-end callback and no playback failure changes it in that
   interval; at most one request is in flight, a submit being ignored while
   isLoading is set or the input is blank. *)
C23_ProcessingWhileLoading ==
  /\ isLoading <=> call["t1"].pc # "idle"
  /\ isLoading => status = "PROCESSING"

====
